---- MODULE Spec2Model ----
(***************************************************************************)
(* A model of the logo theming of hdfc-live-assistant:                     *)
(*   - the colour functions of LogoContext.js (hexToHSL, hslToHex,         *)
(*     calculateComplementaryColor),                                       *)
(*   - the LogoProvider component state and its header-style fetches,      *)
(*   - the backend endpoints upload_logo, get_header_style and get_logo    *)
(*     with the bucket and the temporary files they use.                   *)
(*                                                                         *)
(* A JavaScript string is a sequence of one-character strings.  A number   *)
(* that may be NaN is a sequence that is empty (NaN) or holds the number.  *)
(* Saturation and lightness are held in tenths of a percent, the unit      *)
(* toFixed(1) rounds them to.                                              *)
(*                                                                         *)
(* The code computes in IEEE-754 doubles; the model computes the exact     *)
(* quotients.  The two agree unless the exact value to be rounded lies     *)
(* exactly half-way between two results: there the double is a few ulps    *)
(* above or below the half, and Math.round / toFixed go either way.  Every *)
(* rounding therefore takes a flag that decides the half-way case, and the *)
(* actions choose the flags nondeterministically.                          *)
(***************************************************************************)
EXTENDS Integers, Sequences, FiniteSets, TLC

Min2(a, b) == IF a < b THEN a ELSE b
Max2(a, b) == IF a > b THEN a ELSE b
Abs(a) == IF a < 0 THEN 0 - a ELSE a

(***************************************************************************)
(* Strings and numbers                                                     *)
(***************************************************************************)
NaN == <<>>

LowerDigits ==
  <<"0", "1", "2", "3", "4", "5", "6", "7", "8", "9", "a", "b", "c", "d", "e", "f">>

UpperDigits ==
  <<"0", "1", "2", "3", "4", "5", "6", "7", "8", "9", "A", "B", "C", "D", "E", "F">>

\* A mutant of IsHexDigit: parseInt that knows the lower-case digits only.
IsLowerHexDigit(ch) == \E i \in 1..16 : LowerDigits[i] = ch

\* parseInt(_, 16) accepts the digits 0-9, a-f and A-F.
IsHexDigit(ch) == \E i \in 1..16 : LowerDigits[i] = ch \/ UpperDigits[i] = ch

DigitValue(ch) == (CHOOSE i \in 1..16 : LowerDigits[i] = ch \/ UpperDigits[i] = ch) - 1

\* String.prototype.substring(a, b) for 0 <= a <= b.
Substring(str, a, b) == SubSeq(str, a + 1, Min2(b, Len(str)))

RECURSIVE DigitPrefix(_)
DigitPrefix(str) ==
  IF str = <<>> \/ ~IsHexDigit(Head(str))
  THEN <<>>
  ELSE <<Head(str)>> \o DigitPrefix(Tail(str))

RECURSIVE HexValue(_)
HexValue(digits) ==
  IF digits = <<>>
  THEN 0
  ELSE 16 * HexValue(SubSeq(digits, 1, Len(digits) - 1)) + DigitValue(digits[Len(digits)])

\* parseInt(str, 16): the value of the longest prefix of hex digits, NaN when
\* that prefix is empty.  (Leading white space, a sign and a 0x prefix, which
\* parseInt also accepts, are outside the alphabet of the model's inputs.)
ParseInt16(str) ==
  IF DigitPrefix(str) = <<>> THEN NaN ELSE <<HexValue(DigitPrefix(str))>>

RECURSIVE ToString16(_)
\* Number.prototype.toString(16) of an integer n >= 0.
ToString16(n) ==
  IF n < 16
  THEN <<LowerDigits[n + 1]>>
  ELSE ToString16(n \div 16) \o <<LowerDigits[(n % 16) + 1]>>

\* A mutant of PadStart2: the string is not padded.
PadStart2NoPad(str) == str

\* padStart(2, '0')
PadStart2(str) == IF Len(str) < 2 THEN <<"0">> \o str ELSE str

\* The integer nearest to n / d (d > 0); up decides the exact half-way case.
\* Math.round(n / d) in exact arithmetic is RoundHalf(n, d, TRUE).
RoundHalf(n, d, up) ==
  LET q == n \div d
      r == n - q * d
  IN  IF 2 * r > d \/ (2 * r = d /\ up) THEN q + 1 ELSE q

IsHalfway(n, d) == 2 * (n - (n \div d) * d) = d

\* The ways the half-way cases of one call fall: h and s in hexToHSL,
\* r, g and b in hslToHex.
Fp == [h : BOOLEAN, s : BOOLEAN, r : BOOLEAN, g : BOOLEAN, b : BOOLEAN]

(***************************************************************************)
(* LogoContext.js: the colour functions                                    *)
(***************************************************************************)
NaNHSL == [nan |-> TRUE]

\* hex.replace(/^#/, '')
StripHash(hex) == IF hex # <<>> /\ Head(hex) = "#" THEN Tail(hex) ELSE hex

\* A mutant of Hue: a negative hue is not brought back onto the wheel.
HueNoWrap(r, g, b, up) ==
  LET cmax == Max2(r, Max2(g, b))
      delta == cmax - Min2(r, Min2(g, b))
  IN  IF delta = 0 THEN 0
      ELSE IF cmax = r THEN RoundHalf(60 * (g - b), delta, up)
      ELSE IF cmax = g THEN RoundHalf(60 * (b - r) + 120 * delta, delta, up)
      ELSE RoundHalf(60 * (r - g) + 240 * delta, delta, up)

\* Lines 23-30 of hexToHSL on the channels r, g, b (0..255, before the
\* division by 255, which cancels in every quotient).  |(g - b) / delta| <= 1,
\* so the % 6 of line 25 changes nothing.
Hue(r, g, b, up) ==
  LET cmax == Max2(r, Max2(g, b))
      delta == cmax - Min2(r, Min2(g, b))
      h == IF delta = 0 THEN 0
           ELSE IF cmax = r THEN RoundHalf(60 * (g - b), delta, up)
           ELSE IF cmax = g THEN RoundHalf(60 * (b - r) + 120 * delta, delta, up)
           ELSE RoundHalf(60 * (r - g) + 240 * delta, delta, up)
  IN  IF h < 0 THEN h + 360 ELSE h

\* Lines 33 and 40: l = (cmax + cmin) / 2 as a percentage with one decimal,
\* in tenths.  (cmax + cmin) * 100 / 51 is never half-way between two tenths.
Lightness(r, g, b) ==
  RoundHalf((Max2(r, Max2(g, b)) + Min2(r, Min2(g, b))) * 1000, 510, TRUE)

\* A mutant of Saturation: the achromatic case is not singled out.
SaturationNoZero(r, g, b, up) ==
  LET cmax == Max2(r, Max2(g, b))
      cmin == Min2(r, Min2(g, b))
      den == 255 - Abs(cmax + cmin - 255)
  IN  IF den = 0 THEN 1000 ELSE RoundHalf(1000 * (cmax - cmin), den, up)

\* Lines 36 and 39: s = delta / (1 - |2l - 1|) as a percentage with one
\* decimal, in tenths.
Saturation(r, g, b, up) ==
  LET cmax == Max2(r, Max2(g, b))
      cmin == Min2(r, Min2(g, b))
      delta == cmax - cmin
  IN  IF delta = 0 THEN 0
      ELSE RoundHalf(1000 * delta, 255 - Abs(cmax + cmin - 255), up)

\* hexToHSL.  A NaN channel makes cmin, cmax and delta NaN, and with them
\* h, s and l.
hexToHSL(hex, fp) ==
  LET str == StripHash(hex)
      r == ParseInt16(Substring(str, 0, 2))
      g == ParseInt16(Substring(str, 2, 4))
      b == ParseInt16(Substring(str, 4, 6))
  IN  IF r = NaN \/ g = NaN \/ b = NaN
      THEN NaNHSL
      ELSE [nan |-> FALSE,
            h |-> Hue(r[1], g[1], b[1], fp.h),
            s |-> Saturation(r[1], g[1], b[1], fp.s),
            l |-> Lightness(r[1], g[1], b[1])]

\* A mutant of ChannelUnits: x rises through every sector, (h / 60) % 1 in the
\* place of 1 - |(h / 60) % 2 - 1|.
ChannelUnitsSawtooth(h, s, l) ==
  LET c2 == (500 - Abs(l - 500)) * s
      c == 120 * c2
      x == 2 * c2 * (h % 60)
      m == 60 * (1000 * l - c2)
      rgb == IF 0 <= h /\ h < 60 THEN <<c, x, 0>>
             ELSE IF 60 <= h /\ h < 120 THEN <<x, c, 0>>
             ELSE IF 120 <= h /\ h < 180 THEN <<0, c, x>>
             ELSE IF 180 <= h /\ h < 240 THEN <<0, x, c>>
             ELSE IF 240 <= h /\ h < 300 THEN <<x, 0, c>>
             ELSE <<c, 0, x>>
  IN  <<rgb[1] + m, rgb[2] + m, rgb[3] + m>>

\* Lines 48-70 of hslToHex: the three channels r + m, g + m, b + m in units
\* of 1 / 60000000, for an integer hue h >= 0 and s, l in tenths of a percent.
\*   c = (1 - |2l - 1|) s = 120 c2 units, with c2 = (500 - |l - 500|) s
\*   x = c (1 - |(h / 60) % 2 - 1|) = 2 c2 (60 - |h % 120 - 60|) units
\*   m = l - c / 2 = 60 (1000 l - c2) units
ChannelUnits(h, s, l) ==
  LET c2 == (500 - Abs(l - 500)) * s
      c == 120 * c2
      x == 2 * c2 * (60 - Abs((h % 120) - 60))
      m == 60 * (1000 * l - c2)
      rgb == IF 0 <= h /\ h < 60 THEN <<c, x, 0>>
             ELSE IF 60 <= h /\ h < 120 THEN <<x, c, 0>>
             ELSE IF 120 <= h /\ h < 180 THEN <<0, c, x>>
             ELSE IF 180 <= h /\ h < 240 THEN <<0, x, c>>
             ELSE IF 240 <= h /\ h < 300 THEN <<x, 0, c>>
             ELSE <<c, 0, x>>
  IN  <<rgb[1] + m, rgb[2] + m, rgb[3] + m>>

\* A mutant of Channel255: Math.floor in the place of Math.round.
Channel255Floor(units, up) == (17 * units) \div 4000000

\* Math.round((channel + m) * 255): 255 / 60000000 = 17 / 4000000.
Channel255(units, up) == RoundHalf(17 * units, 4000000, up)

\* Lines 73-75: toString(16).padStart(2, '0')
ToHex2(n) == PadStart2(ToString16(n))

\* The channels hslToHex rounds to, before they are written in hex.
hslToRGB(h, s, l, fp) ==
  LET u == ChannelUnits(h, s, l)
  IN  <<Channel255(u[1], fp.r), Channel255(u[2], fp.g), Channel255(u[3], fp.b)>>

\* hslToHex for numbers h, s, l.
hslToHex(h, s, l, fp) ==
  LET rgb == hslToRGB(h, s, l, fp)
  IN  <<"#">> \o ToHex2(rgb[1]) \o ToHex2(rgb[2]) \o ToHex2(rgb[3])

\* hslToHex(NaN, NaN, NaN): every channel is Math.round(NaN).toString(16).
NaNHex == <<"#", "N", "a", "N", "N", "a", "N", "N", "a", "N">>

\* '#6495ED', line 82
DefaultBlue == <<"#", "6", "4", "9", "5", "E", "D">>

\* A mutant of NewHue: the hue is not reduced modulo 360.
NewHueNoMod(h) == h + 180

\* Line 86
NewHue(h) == (h + 180) % 360

\* A mutant of NewSaturation: the lower bound of 60 is not applied.
NewSaturationNoFloor(s) == Min2(s, 900)

\* Line 90, in tenths
NewSaturation(s) == Min2(Max2(s, 600), 900)

\* Line 94, in tenths
NewLightness(l) == IF l < 500 THEN Min2(l + 300, 800) ELSE Max2(l - 300, 300)

\* calculateComplementaryColor.  An absent or empty colour is falsy.
calculateComplementaryColor(hexColor, fp) ==
  IF hexColor = <<>>
  THEN DefaultBlue
  ELSE LET hsl == hexToHSL(hexColor, fp)
       IN  IF hsl.nan
           THEN NaNHex
           ELSE hslToHex(NewHue(hsl.h), NewSaturation(hsl.s), NewLightness(hsl.l), fp)

(***************************************************************************)
(* The inputs of the colour functions                                      *)
(***************************************************************************)
\* The channel levels of the grid of valid colours are the multiples of
\* GridStep, and 255.
GridStep == 51

GridLevels == {k * GridStep : k \in 0..(255 \div GridStep)} \cup {255}

GridColours == GridLevels \X GridLevels \X GridLevels

\* Colours at the edges of the conversions: the default dominant colour
\* #282c34, mid grey, orange #ff8000, hues that round to 359 or lie next to a
\* sector border, saturations and lightnesses next to the clamps of
\* calculateComplementaryColor, and <<0, 24, 1>>, whose exact hue 122.5 is a
\* half-way case, and <<255, 0, 1>>, whose hue of -0.24 rounds to -0.
EdgeColours ==
  { <<255, 0, 1>>, <<40, 44, 52>>, <<128, 128, 128>>, <<255, 128, 0>>, <<231, 190, 191>>,
    <<244, 203, 204>>, <<0, 2, 210>>, <<0, 11, 247>>, <<248, 0, 0>>,
    <<51, 51, 203>>, <<254, 0, 0>>, <<0, 24, 1>>, <<1, 1, 31>> }

\* '#%02x%02x%02x' % rgb, the spelling the backend and hslToHex produce.
FormatHex(rgb) == <<"#">> \o ToHex2(rgb[1]) \o ToHex2(rgb[2]) \o ToHex2(rgb[3])

UpperChar(ch) ==
  IF \E i \in 1..16 : LowerDigits[i] = ch
  THEN UpperDigits[CHOOSE i \in 1..16 : LowerDigits[i] = ch]
  ELSE ch

ToUpperCase(str) == [i \in 1..Len(str) |-> UpperChar(str[i])]

\* The spellings of one colour: with or without the leading #, in lower or
\* upper case.
Spellings(hex) ==
  { hex, StripHash(hex), ToUpperCase(hex), ToUpperCase(StripHash(hex)),
    <<"#">> \o StripHash(hex) }

\* After stripping an optional leading #, exactly six hex digits.
WellFormed(hex) ==
  LET str == StripHash(hex)
  IN  Len(str) = 6 /\ \A i \in 1..6 : IsHexDigit(str[i])

MalformedInputs ==
  { <<>>, <<"#">>, <<"#", "z", "z", "z">>, <<"#", "1", "2", "3", "4">>,
    <<"#", "1", "2", "3", "4", "5", "g">>, <<"z", "z", "0", "0", "0", "0">>,
    <<"#", "f", "f", "8", "0", "0", "0", "f", "f">>, <<"#", "#", "f", "f", "8", "0", "0", "0">> }

ColourInputs ==
  {FormatHex(c) : c \in GridColours \cup EdgeColours}
    \cup UNION {Spellings(FormatHex(c)) : c \in EdgeColours}
    \cup MalformedInputs

\* The channels a string is parsed to (lines 8-13 of hexToHSL), each a number
\* or NaN.
Channels(hex) ==
  LET str == StripHash(hex)
  IN  <<ParseInt16(Substring(str, 0, 2)), ParseInt16(Substring(str, 2, 4)),
        ParseInt16(Substring(str, 4, 6))>>

(***************************************************************************)
(* State                                                                   *)
(***************************************************************************)
VARIABLES
  \* The colour functions applied to one input: the input string and, once
  \* the call has returned, its result in a one-element sequence.
  hexIn,      \* the string handed to hexToHSL and calculateComplementaryColor
  hsl,        \* hexToHSL(hexIn)
  back,       \* hslToHex(hsl.h, hsl.s, hsl.l)
  backHsl,    \* hexToHSL(back)
  comp,       \* calculateComplementaryColor(hexIn)
  compHsl,    \* hexToHSL(comp)
  \* hslToHex applied to numbers: <<h, s, l>>, s and l in tenths of a
  \* percent, and the string returned.
  hslIn,
  hexOut

colourVars == <<hexIn, hsl, back, backHsl, comp, compHsl, hslIn, hexOut>>

VARIABLES
  \* The backend.  An object or file that may be absent is a sequence that
  \* is empty or holds its content.
  gcsLogo,    \* the bucket object logos/logo.png: the image stored
  gcsStyle,   \* the bucket object logos/header_style.json: the style stored
  tmpLogo,    \* /tmp/temp_logo.png of each container
  tmpStyle,   \* /tmp/header_style.json of each container
  upload,     \* the upload_logo requests: where each stands, and its locals
  styleGet,   \* a client's GET /api/header-style request and its response
  logoGet,    \* a client's GET /api/logo request and its response
  \* History, read by the properties only.
  lastOk,     \* hex_color of the upload_logo request that last returned 200
  overlapped  \* whether two upload_logo requests have been in flight at once

backendVars ==
  <<gcsLogo, gcsStyle, tmpLogo, tmpStyle, upload, styleGet, logoGet, lastOk, overlapped>>

VARIABLES
  \* LogoProvider (LogoContext.js)
  logoUrl,             \* useState('')
  dominantColor,       \* useState('#282c34')
  complementaryColor,  \* useState('#ED7D31')
  mounted,             \* whether the effects of the first render have run
  effectDeps,          \* [dominantColor] as of the last run of the effect of
                       \* lines 125-128, empty before its first run
  fetch,               \* the calls of fetchHeaderStyle: where each stands
  \* History, read by the properties only.
  applied,             \* the responses whose data has been set, in order
  response,            \* the data each call of fetchHeaderStyle received
  overlaps             \* the pairs <<i, j>>: call j began while call i was pending

providerVars ==
  <<logoUrl, dominantColor, complementaryColor, mounted, effectDeps, fetch,
    applied, response, overlaps>>

VARIABLES
  \* LogoUploader
  file,            \* useState(null): empty, or the file selected
  feedback,        \* feedback.type: "", "success" or "error"
  uploading,       \* useState(false)
  uploadProgress,  \* useState(0)
  request,         \* the running handleUpload: 0, or its number while it
                   \* awaits fetch
  started,         \* how many calls of handleUpload have begun
  intervals,       \* the progressInterval timers that run, by call
  timeouts,        \* how many setTimeout(() => setUploadProgress(0)) are due
  refreshes        \* how many times onUploadSuccess was called

uploaderVars ==
  <<file, feedback, uploading, uploadProgress, request, started, intervals,
    timeouts, refreshes>>

vars == <<colourVars, backendVars, providerVars, uploaderVars>>

(***************************************************************************)
(* The backend: upload_logo, get_header_style, get_logo                    *)
(***************************************************************************)
\* The containers that serve requests; each has its own /tmp.
NumContainers == 2

\* The upload_logo requests of a behaviour.
MaxUploads == 2

Containers == 1..NumContainers

Uploads == 1..MaxUploads

\* The logo files clients upload.
Files == {"logoA", "logoB"}

\* extcolors.extract_from_path(path)[0]: the colours of the image, the
\* dominant one first.
ExtractColors(image) ==
  IF image = "logoA" THEN << <<255, 128, 0>> >> ELSE << <<0, 51, 204>> >>

\* "#282c34", lines 300 and 345 (and line 101 of LogoContext.js)
DefaultDominant == <<"#", "2", "8", "2", "c", "3", "4">>

\* Lines 300-307: the colour upload_logo extracts from the temporary file.
\* A missing file makes extract_from_path raise, which leaves the default.
ExtractedHex(tmp) ==
  IF tmp = <<>> \/ ExtractColors(tmp[1]) = <<>>
  THEN DefaultDominant
  ELSE FormatHex(ExtractColors(tmp[1])[1])

\* A mutant of StyleData: the default colour in the place of hex_color.
StyleDataDefault(hex_color) ==
  [dominantColor |-> DefaultDominant, logoUrl |-> "/api/logo"]

\* Lines 314-317: style_data
StyleData(hex_color) == [dominantColor |-> hex_color, logoUrl |-> "/api/logo"]

\* Lines 344-347: the style get_header_style answers with when none is stored.
DefaultStyle == [dominantColor |-> DefaultDominant, logoUrl |-> "/api/logo"]

InFlight(i) == upload[i].pc \notin {"idle", "done"}

InitBackend ==
  /\ gcsLogo = <<>>
  /\ gcsStyle = <<>>
  /\ tmpLogo = [k \in Containers |-> <<>>]
  /\ tmpStyle = [k \in Containers |-> <<>>]
  /\ upload = [i \in Uploads |-> [pc |-> "idle", status |-> 0, on |-> 0,
                                  file |-> <<>>, hex_color |-> <<>>]]
  /\ styleGet = [pc |-> "idle", found |-> FALSE, quiet |-> FALSE,
                 status |-> 0, body |-> <<>>]
  /\ logoGet = [pc |-> "idle", status |-> 0, body |-> <<>>]
  /\ lastOk = <<>>
  /\ overlapped = FALSE

\* The request returns: its locals are gone, its response is kept.
Return(i, code) ==
  [pc |-> "done", status |-> code, on |-> upload[i].on,
   file |-> <<>>, hex_color |-> <<>>]

\* Lines 285-292: a request without a 'logo' part, or with an empty file
\* name, is answered 400.
UploadRejected(i) ==
  /\ upload[i].pc = "idle"
  /\ \A j \in Uploads : j < i => upload[j].pc # "idle"
  /\ upload' = [upload EXCEPT ![i] = [pc |-> "done", status |-> 400, on |-> 0,
                                      file |-> <<>>, hex_color |-> <<>>]]
  /\ UNCHANGED <<gcsLogo, gcsStyle, tmpLogo, tmpStyle, styleGet, logoGet,
                 lastOk, overlapped>>
  /\ UNCHANGED <<colourVars, providerVars, uploaderVars>>

\* Lines 285-294: container k receives a request with the file f.
UploadReceived(i, k, f) ==
  /\ upload[i].pc = "idle"
  /\ \A j \in Uploads : j < i => upload[j].pc # "idle"
  /\ upload' = [upload EXCEPT ![i] = [pc |-> "save", status |-> 0, on |-> k,
                                      file |-> <<f>>, hex_color |-> <<>>]]
  /\ overlapped' = (overlapped \/ \E j \in Uploads : InFlight(j))
  /\ styleGet' = [styleGet EXCEPT !.quiet = FALSE]
  /\ UNCHANGED <<gcsLogo, gcsStyle, tmpLogo, tmpStyle, logoGet, lastOk>>
  /\ UNCHANGED <<colourVars, providerVars, uploaderVars>>

\* Lines 296-297: await file.save(temp_filepath)
SaveTempLogo(i) ==
  /\ upload[i].pc = "save"
  /\ tmpLogo' = [tmpLogo EXCEPT ![upload[i].on] = upload[i].file]
  /\ upload' = [upload EXCEPT ![i].pc = "extract"]
  /\ UNCHANGED <<gcsLogo, gcsStyle, tmpStyle, styleGet, logoGet, lastOk, overlapped>>
  /\ UNCHANGED <<colourVars, providerVars, uploaderVars>>

\* Lines 300-307: the dominant colour of the temporary file, or the default.
ExtractDominantColor(i) ==
  /\ upload[i].pc = "extract"
  /\ upload' = [upload EXCEPT ![i].pc = "put_logo",
                              ![i].hex_color = ExtractedHex(tmpLogo[upload[i].on])]
  /\ UNCHANGED <<gcsLogo, gcsStyle, tmpLogo, tmpStyle, styleGet, logoGet,
                 lastOk, overlapped>>
  /\ UNCHANGED <<colourVars, providerVars, uploaderVars>>

\* Lines 310-311: upload_file_to_gcs(temp_filepath, "logo.png").  It raises
\* when the temporary file is gone or the bucket cannot be written; line 331
\* answers 500.
UploadLogoToGcs(i) ==
  /\ upload[i].pc = "put_logo"
  /\ \/ /\ tmpLogo[upload[i].on] # <<>>
        /\ gcsLogo' = tmpLogo[upload[i].on]
        /\ upload' = [upload EXCEPT ![i].pc = "dump_style"]
     \/ /\ upload' = [upload EXCEPT ![i] = Return(i, 500)]
        /\ UNCHANGED gcsLogo
  /\ UNCHANGED <<gcsStyle, tmpLogo, tmpStyle, styleGet, logoGet, lastOk, overlapped>>
  /\ UNCHANGED <<colourVars, providerVars, uploaderVars>>

\* Lines 314-320: json.dump(style_data) into the temporary style file.
DumpStyle(i) ==
  /\ upload[i].pc = "dump_style"
  /\ tmpStyle' = [tmpStyle EXCEPT ![upload[i].on] = <<StyleData(upload[i].hex_color)>>]
  /\ upload' = [upload EXCEPT ![i].pc = "put_style"]
  /\ UNCHANGED <<gcsLogo, gcsStyle, tmpLogo, styleGet, logoGet, lastOk, overlapped>>
  /\ UNCHANGED <<colourVars, providerVars, uploaderVars>>

\* Lines 323-324: upload_file_to_gcs(temp_style_filepath, "header_style.json")
UploadStyleToGcs(i) ==
  /\ upload[i].pc = "put_style"
  /\ \/ /\ tmpStyle[upload[i].on] # <<>>
        /\ gcsStyle' = tmpStyle[upload[i].on]
        /\ upload' = [upload EXCEPT ![i].pc = "rm_logo"]
     \/ /\ upload' = [upload EXCEPT ![i] = Return(i, 500)]
        /\ UNCHANGED gcsStyle
  /\ UNCHANGED <<gcsLogo, tmpLogo, tmpStyle, styleGet, logoGet, lastOk, overlapped>>
  /\ UNCHANGED <<colourVars, providerVars, uploaderVars>>

\* Line 327: os.remove(temp_filepath), which raises when the file is gone.
RemoveTempLogo(i) ==
  /\ upload[i].pc = "rm_logo"
  /\ IF tmpLogo[upload[i].on] # <<>>
     THEN /\ tmpLogo' = [tmpLogo EXCEPT ![upload[i].on] = <<>>]
          /\ upload' = [upload EXCEPT ![i].pc = "rm_style"]
     ELSE /\ upload' = [upload EXCEPT ![i] = Return(i, 500)]
          /\ UNCHANGED tmpLogo
  /\ UNCHANGED <<gcsLogo, gcsStyle, tmpStyle, styleGet, logoGet, lastOk, overlapped>>
  /\ UNCHANGED <<colourVars, providerVars, uploaderVars>>

\* Lines 328-330: os.remove(temp_style_filepath), then the answer 200.
RemoveTempStyle(i) ==
  /\ upload[i].pc = "rm_style"
  /\ IF tmpStyle[upload[i].on] # <<>>
     THEN /\ tmpStyle' = [tmpStyle EXCEPT ![upload[i].on] = <<>>]
          /\ upload' = [upload EXCEPT ![i] = Return(i, 200)]
          /\ lastOk' = upload[i].hex_color
     ELSE /\ upload' = [upload EXCEPT ![i] = Return(i, 500)]
          /\ UNCHANGED <<tmpStyle, lastOk>>
  /\ UNCHANGED <<gcsLogo, gcsStyle, tmpLogo, styleGet, logoGet, overlapped>>
  /\ UNCHANGED <<colourVars, providerVars, uploaderVars>>

\* A client sends GET /api/header-style.
HeaderStyleRequested ==
  /\ styleGet.pc \in {"idle", "done"}
  /\ styleGet' = [pc |-> "exists", found |-> FALSE,
                  quiet |-> (~overlapped /\ \A i \in Uploads : ~InFlight(i)),
                  status |-> 0, body |-> <<>>]
  /\ UNCHANGED <<gcsLogo, gcsStyle, tmpLogo, tmpStyle, upload, logoGet, lastOk, overlapped>>
  /\ UNCHANGED <<colourVars, providerVars, uploaderVars>>

\* Lines 339 and 342-347: file_exists_in_gcs("header_style.json"); the
\* default style is the answer when it does not.
HeaderStyleExists ==
  /\ styleGet.pc = "exists"
  /\ IF gcsStyle # <<>>
     THEN styleGet' = [styleGet EXCEPT !.pc = "read", !.found = TRUE]
     ELSE styleGet' = [styleGet EXCEPT !.pc = "done", !.status = 200,
                                       !.body = <<DefaultStyle>>]
  /\ UNCHANGED <<gcsLogo, gcsStyle, tmpLogo, tmpStyle, upload, logoGet, lastOk, overlapped>>
  /\ UNCHANGED <<colourVars, providerVars, uploaderVars>>

\* Lines 340-341: get_file_from_gcs("header_style.json") is the answer.
\* Nothing deletes the object, so it is still there.
HeaderStyleRead ==
  /\ styleGet.pc = "read"
  /\ styleGet' = [styleGet EXCEPT !.pc = "done", !.status = 200, !.body = gcsStyle]
  /\ UNCHANGED <<gcsLogo, gcsStyle, tmpLogo, tmpStyle, upload, logoGet, lastOk, overlapped>>
  /\ UNCHANGED <<colourVars, providerVars, uploaderVars>>

\* A client sends GET /api/logo.
LogoRequested ==
  /\ logoGet.pc \in {"idle", "done"}
  /\ logoGet' = [pc |-> "exists", status |-> 0, body |-> <<>>]
  /\ UNCHANGED <<gcsLogo, gcsStyle, tmpLogo, tmpStyle, upload, styleGet, lastOk, overlapped>>
  /\ UNCHANGED <<colourVars, providerVars, uploaderVars>>

\* Lines 356 and 359-361: file_exists_in_gcs("logo.png"), 404 when it does not.
LogoExists ==
  /\ logoGet.pc = "exists"
  /\ IF gcsLogo # <<>>
     THEN logoGet' = [logoGet EXCEPT !.pc = "read"]
     ELSE logoGet' = [logoGet EXCEPT !.pc = "done", !.status = 404]
  /\ UNCHANGED <<gcsLogo, gcsStyle, tmpLogo, tmpStyle, upload, styleGet, lastOk, overlapped>>
  /\ UNCHANGED <<colourVars, providerVars, uploaderVars>>

\* Lines 357-358: get_file_from_gcs("logo.png") is the answer.
LogoRead ==
  /\ logoGet.pc = "read"
  /\ logoGet' = [logoGet EXCEPT !.pc = "done", !.status = 200, !.body = gcsLogo]
  /\ UNCHANGED <<gcsLogo, gcsStyle, tmpLogo, tmpStyle, upload, styleGet, lastOk, overlapped>>
  /\ UNCHANGED <<colourVars, providerVars, uploaderVars>>

NextBackend ==
  \/ \E i \in Uploads : UploadRejected(i)
  \/ \E i \in Uploads, k \in Containers, f \in Files : UploadReceived(i, k, f)
  \/ \E i \in Uploads : SaveTempLogo(i)
  \/ \E i \in Uploads : ExtractDominantColor(i)
  \/ \E i \in Uploads : UploadLogoToGcs(i)
  \/ \E i \in Uploads : DumpStyle(i)
  \/ \E i \in Uploads : UploadStyleToGcs(i)
  \/ \E i \in Uploads : RemoveTempLogo(i)
  \/ \E i \in Uploads : RemoveTempStyle(i)
  \/ HeaderStyleRequested
  \/ HeaderStyleExists
  \/ HeaderStyleRead
  \/ LogoRequested
  \/ LogoExists
  \/ LogoRead


(***************************************************************************)
(* LogoContext.js: LogoProvider                                            *)
(***************************************************************************)
\* The calls of fetchHeaderStyle of a behaviour: the one of the mount effect
\* and those of refreshLogo.
MaxFetches == 3

Fetches == 1..MaxFetches

\* '#ED7D31', line 102
InitialComplementary == <<"#", "E", "D", "7", "D", "3", "1">>

\* The styles get_header_style can answer with: the default, or the style
\* an upload_logo request stored.
ServerStyles == {DefaultStyle} \cup {StyleData(ExtractedHex(<<f>>)) : f \in Files}

\* Line 115: the URL of the logo on the backend host.  (The host is chosen
\* once per page from window.location; the ?t= time stamp, which only defeats
\* caches, is left out.)
FullLogoUrl(path) == <<"backend", path>>

InitProvider ==
  /\ logoUrl = <<>>
  /\ dominantColor = DefaultDominant
  /\ complementaryColor = InitialComplementary
  /\ mounted = FALSE
  /\ effectDeps = <<>>
  /\ fetch = [i \in Fetches |-> "idle"]
  /\ applied = <<>>
  /\ response = [i \in Fetches |-> <<>>]
  /\ overlaps = {}

\* A mutant of EffectDue: the effect has no dependencies and runs on the
\* first render only.
EffectDueOnMount == effectDeps = <<>>

\* The effect of lines 125-128 has to run: first render, or dominantColor
\* differs from the one it last ran with.
EffectDue == effectDeps # <<dominantColor>>

\* The effects of the first render, in the order of the source: lines 125-128
\* set the complementary colour, lines 130-132 call fetchHeaderStyle.
Mount ==
  /\ ~mounted
  /\ mounted' = TRUE
  /\ \E fp \in Fp : complementaryColor' = calculateComplementaryColor(dominantColor, fp)
  /\ effectDeps' = <<dominantColor>>
  /\ fetch' = [fetch EXCEPT ![1] = "pending"]
  /\ UNCHANGED <<logoUrl, dominantColor, applied, response, overlaps>>
  /\ UNCHANGED <<colourVars, backendVars, uploaderVars>>

\* Lines 134-136: refreshLogo calls fetchHeaderStyle.
RefreshLogo(i) ==
  /\ mounted
  /\ fetch[i] = "idle"
  /\ \A j \in Fetches : j < i => fetch[j] # "idle"
  /\ fetch' = [fetch EXCEPT ![i] = "pending"]
  /\ overlaps' = overlaps \cup {<<j, i>> : j \in {k \in Fetches : fetch[k] = "pending"}}
  /\ UNCHANGED <<logoUrl, dominantColor, complementaryColor, mounted, effectDeps,
                 applied, response>>
  /\ UNCHANGED <<colourVars, backendVars, uploaderVars>>

\* Lines 112-118: the response is ok; its data is set.  React runs the
\* effects of a render before it handles the next update.
FetchOk(i, data) ==
  /\ fetch[i] = "pending"
  /\ ~EffectDue
  /\ fetch' = [fetch EXCEPT ![i] = "applied"]
  /\ logoUrl' = FullLogoUrl(data.logoUrl)
  /\ dominantColor' = data.dominantColor
  /\ applied' = Append(applied, data)
  /\ response' = [response EXCEPT ![i] = <<data>>]
  /\ UNCHANGED <<complementaryColor, mounted, effectDeps, overlaps>>
  /\ UNCHANGED <<colourVars, backendVars, uploaderVars>>

\* Line 113: the response is not ok; nothing is set.
FetchNotOk(i) ==
  /\ fetch[i] = "pending"
  /\ fetch' = [fetch EXCEPT ![i] = "not_ok"]
  /\ UNCHANGED <<logoUrl, dominantColor, complementaryColor, mounted, effectDeps,
                 applied, response, overlaps>>
  /\ UNCHANGED <<colourVars, backendVars, uploaderVars>>

\* Lines 119-121: fetch or response.json() throws; the error is logged.
FetchThrows(i) ==
  /\ fetch[i] = "pending"
  /\ fetch' = [fetch EXCEPT ![i] = "threw"]
  /\ UNCHANGED <<logoUrl, dominantColor, complementaryColor, mounted, effectDeps,
                 applied, response, overlaps>>
  /\ UNCHANGED <<colourVars, backendVars, uploaderVars>>

\* Lines 125-128: dominantColor has changed; the effect sets the
\* complementary colour.
ComplementaryEffect ==
  /\ mounted
  /\ EffectDue
  /\ \E fp \in Fp : complementaryColor' = calculateComplementaryColor(dominantColor, fp)
  /\ effectDeps' = <<dominantColor>>
  /\ UNCHANGED <<logoUrl, dominantColor, mounted, fetch, applied, response, overlaps>>
  /\ UNCHANGED <<colourVars, backendVars, uploaderVars>>

NextProvider ==
  \/ Mount
  \/ \E i \in Fetches : RefreshLogo(i)
  \/ \E i \in Fetches, data \in ServerStyles : FetchOk(i, data)
  \/ \E i \in Fetches : FetchNotOk(i)
  \/ \E i \in Fetches : FetchThrows(i)
  \/ ComplementaryEffect

(***************************************************************************)
(* LogoUploader                                                            *)
(***************************************************************************)
\* The calls of handleUpload of a behaviour.
MaxClicks == 2

\* The values of Math.random() * 15 (line 57) the model draws, as whole
\* percents.
ProgressSteps == {0, 7, 14}

InitUploader ==
  /\ file = <<>>
  /\ feedback = ""
  /\ uploading = FALSE
  /\ uploadProgress = 0
  /\ request = 0
  /\ started = 0
  /\ intervals = {}
  /\ timeouts = 0
  /\ refreshes = 0

\* Lines 25-32: a file is selected.
HandleFileChange(f) ==
  /\ file # <<f>>
  /\ file' = <<f>>
  /\ feedback' = ""
  /\ uploadProgress' = 0
  /\ UNCHANGED <<uploading, request, started, intervals, timeouts, refreshes>>
  /\ UNCHANGED <<colourVars, backendVars, providerVars>>

\* Lines 34-62: the button, enabled when a file is selected and no upload
\* runs (line 122), calls handleUpload, which runs up to await fetch.  The
\* branch of lines 35-38 cannot be taken from the button.
HandleUploadStart ==
  /\ file # <<>>
  /\ ~uploading
  /\ started < MaxClicks
  /\ started' = started + 1
  /\ uploading' = TRUE
  /\ uploadProgress' = 10
  /\ intervals' = intervals \cup {started + 1}
  /\ request' = started + 1
  /\ UNCHANGED <<file, feedback, timeouts, refreshes>>
  /\ UNCHANGED <<colourVars, backendVars, providerVars>>

\* Lines 55-60: a progressInterval timer fires.
ProgressTick(step) ==
  /\ intervals # {}
  /\ uploadProgress' = IF uploadProgress + step >= 90 THEN 90 ELSE uploadProgress + step
  /\ uploadProgress' # uploadProgress
  /\ UNCHANGED <<file, feedback, uploading, request, started, intervals, timeouts,
                 refreshes>>
  /\ UNCHANGED <<colourVars, backendVars, providerVars>>

\* Lines 62-77 and 81-85: fetch resolves; the timer of this call is cleared,
\* the progress set to 100, the feedback set, onUploadSuccess called for an
\* ok response; then the finally block.
UploadResponds(ok) ==
  /\ request # 0
  /\ intervals' = intervals \ {request}
  /\ uploadProgress' = 100
  /\ feedback' = IF ok THEN "success" ELSE "error"
  /\ refreshes' = IF ok THEN refreshes + 1 ELSE refreshes
  /\ uploading' = FALSE
  /\ timeouts' = timeouts + 1
  /\ request' = 0
  /\ UNCHANGED <<file, started>>
  /\ UNCHANGED <<colourVars, backendVars, providerVars>>

\* Lines 78-85: fetch throws; the catch block sets the feedback, then the
\* finally block.  progressInterval, declared in the try block, is not
\* cleared.
UploadThrows ==
  /\ request # 0
  /\ feedback' = "error"
  /\ uploading' = FALSE
  /\ timeouts' = timeouts + 1
  /\ request' = 0
  /\ UNCHANGED <<file, uploadProgress, started, intervals, refreshes>>
  /\ UNCHANGED <<colourVars, backendVars, providerVars>>

\* Line 84: a timeout of the finally block fires.
ResetProgress ==
  /\ timeouts > 0
  /\ timeouts' = timeouts - 1
  /\ uploadProgress' = 0
  /\ UNCHANGED <<file, feedback, uploading, request, started, intervals, refreshes>>
  /\ UNCHANGED <<colourVars, backendVars, providerVars>>

NextUploader ==
  \/ \E f \in Files : HandleFileChange(f)
  \/ HandleUploadStart
  \/ \E step \in ProgressSteps : ProgressTick(step)
  \/ \E ok \in BOOLEAN : UploadResponds(ok)
  \/ UploadThrows
  \/ ResetProgress

(***************************************************************************)
(* The colour functions applied to an input                                *)
(***************************************************************************)
InitColour ==
  /\ hexIn \in ColourInputs
  /\ hsl = <<>>
  /\ back = <<>>
  /\ backHsl = <<>>
  /\ comp = <<>>
  /\ compHsl = <<>>
  /\ hslIn = <<>>
  /\ hexOut = <<>>

\* The code is deterministic: a second hexToHSL of the same channels gives
\* the result of the first.
SameAsBefore(str, res) ==
  /\ (hsl # <<>> /\ Channels(str) = Channels(hexIn)) => res = hsl[1]
  /\ (back # <<>> /\ backHsl # <<>> /\ Channels(str) = Channels(back[1]))
       => res = backHsl[1]
  /\ (comp # <<>> /\ compHsl # <<>> /\ Channels(str) = Channels(comp[1]))
       => res = compHsl[1]

CallHexToHSL ==
  /\ hsl = <<>>
  /\ \E fp \in Fp : hsl' = <<hexToHSL(hexIn, fp)>>
  /\ UNCHANGED <<hexIn, back, backHsl, comp, compHsl, hslIn, hexOut>>
  /\ UNCHANGED <<backendVars, providerVars, uploaderVars>>

CallHslToHex ==
  /\ hsl # <<>>
  /\ ~hsl[1].nan
  /\ back = <<>>
  /\ \E fp \in Fp : back' = <<hslToHex(hsl[1].h, hsl[1].s, hsl[1].l, fp)>>
  /\ UNCHANGED <<hexIn, hsl, backHsl, comp, compHsl, hslIn, hexOut>>
  /\ UNCHANGED <<backendVars, providerVars, uploaderVars>>

CallHexToHSLOfBack ==
  /\ back # <<>>
  /\ backHsl = <<>>
  /\ \E fp \in Fp :
       /\ SameAsBefore(back[1], hexToHSL(back[1], fp))
       /\ backHsl' = <<hexToHSL(back[1], fp)>>
  /\ UNCHANGED <<hexIn, hsl, back, comp, compHsl, hslIn, hexOut>>
  /\ UNCHANGED <<backendVars, providerVars, uploaderVars>>

CallComplementary ==
  /\ hsl # <<>>
  /\ comp = <<>>
  /\ \E fp \in Fp :
       /\ hexToHSL(hexIn, fp) = hsl[1]
       /\ comp' = <<calculateComplementaryColor(hexIn, fp)>>
  /\ UNCHANGED <<hexIn, hsl, back, backHsl, compHsl, hslIn, hexOut>>
  /\ UNCHANGED <<backendVars, providerVars, uploaderVars>>

CallHexToHSLOfComp ==
  /\ comp # <<>>
  /\ compHsl = <<>>
  /\ \E fp \in Fp :
       /\ SameAsBefore(comp[1], hexToHSL(comp[1], fp))
       /\ compHsl' = <<hexToHSL(comp[1], fp)>>
  /\ UNCHANGED <<hexIn, hsl, back, backHsl, comp, hslIn, hexOut>>
  /\ UNCHANGED <<backendVars, providerVars, uploaderVars>>

NextColour ==
  \/ CallHexToHSL
  \/ CallHslToHex
  \/ CallHexToHSLOfBack
  \/ CallComplementary
  \/ CallHexToHSLOfComp

InitLab == InitColour /\ InitBackend /\ InitProvider /\ InitUploader

SpecColour == InitLab /\ [][NextColour]_vars

(***************************************************************************)
(* hslToHex applied to numbers                                             *)
(***************************************************************************)
\* The hues of the grid are the multiples of HueStep below 360 and their
\* neighbours; the saturations and lightnesses, in tenths of a percent, are
\* the multiples of PercentStep, 100 %, and the values next to 0 and 100 %.
HueStep == 30

PercentStep == 250

GridHues ==
  {h \in 0..359 : \E k \in 0..(359 \div HueStep), d \in {-1, 0, 1} : h = k * HueStep + d}
    \cup {359}

GridPercents ==
  {k * PercentStep : k \in 0..(1000 \div PercentStep)} \cup {1, 999, 1000}

InitHsl ==
  /\ hslIn \in GridHues \X GridPercents \X GridPercents
  /\ hexOut = <<>>
  /\ hexIn = <<>>
  /\ hsl = <<>>
  /\ back = <<>>
  /\ backHsl = <<>>
  /\ comp = <<>>
  /\ compHsl = <<>>
  /\ InitBackend
  /\ InitProvider
  /\ InitUploader

CallHslToHexOfNumbers ==
  /\ hslIn # <<>>
  /\ hexOut = <<>>
  /\ \E fp \in Fp : hexOut' = <<hslToHex(hslIn[1], hslIn[2], hslIn[3], fp)>>
  /\ UNCHANGED <<hexIn, hsl, back, backHsl, comp, compHsl, hslIn>>
  /\ UNCHANGED <<backendVars, providerVars, uploaderVars>>

NextHsl == CallHslToHexOfNumbers

SpecHslToHex == InitHsl /\ [][NextHsl]_vars

(***************************************************************************)
(* The backend on its own                                                  *)
(***************************************************************************)
\* No colour function is being applied.
NoColourCall ==
  /\ hexIn = <<>>
  /\ hsl = <<>>
  /\ back = <<>>
  /\ backHsl = <<>>
  /\ comp = <<>>
  /\ compHsl = <<>>
  /\ hslIn = <<>>
  /\ hexOut = <<>>

Init == InitBackend /\ NoColourCall /\ InitProvider /\ InitUploader

Next == NextBackend

Spec == Init /\ [][Next]_vars

(***************************************************************************)
(* LogoProvider on its own, the server's answers being any it can give     *)
(***************************************************************************)
InitFrontend == InitProvider /\ NoColourCall /\ InitBackend /\ InitUploader

SpecProvider == InitFrontend /\ [][NextProvider]_vars

(***************************************************************************)
(* LogoUploader on its own                                                 *)
(***************************************************************************)
SpecUploader == InitFrontend /\ [][NextUploader]_vars

(***************************************************************************)
(* Properties of the colour functions                                      *)
(***************************************************************************)
\* The channels of a well-formed colour string.
RGB(hex) == <<Channels(hex)[1][1], Channels(hex)[2][1], Channels(hex)[3][1]>>

\* The distance of two hues on the colour wheel.
HueDistance(h1, h2) == Min2((h1 - h2) % 360, (h2 - h1) % 360)

\* '#' and six lower-case hex digits.
IsRRGGBB(str) ==
  /\ Len(str) = 7
  /\ str[1] = "#"
  /\ \A i \in 2..7 : \E k \in 1..16 : LowerDigits[k] = str[i]

Achromatic(hex) ==
  WellFormed(hex) /\ RGB(hex)[1] = RGB(hex)[2] /\ RGB(hex)[2] = RGB(hex)[3]

MaxChannelDiff(c1, c2) ==
  Max2(Abs(c1[1] - c2[1]), Max2(Abs(c1[2] - c2[2]), Abs(c1[3] - c2[3])))

\* C1 (as claimed): hexToHSL and calculateComplementaryColor never return a
\* value for a malformed hex string; they fail with InvalidColorFormat.  The
\* code has no such failure: both return, with NaN fields or with the colour
\* of the digits they could parse.
C1_MalformedNeverReturns ==
  ~WellFormed(hexIn) => (hsl = <<>> /\ comp = <<>>)

\* C3 (as claimed): for every valid colour c, hexToHSL(hslToHex(hexToHSL(c)))
\* is within 1 unit of hexToHSL(c) in each of h, s and l.
C3_RoundTripHSLWithin1 ==
  (WellFormed(hexIn) /\ backHsl # <<>>) =>
    /\ Abs(backHsl[1].h - hsl[1].h) <= 1
    /\ Abs(backHsl[1].s - hsl[1].s) <= 10
    /\ Abs(backHsl[1].l - hsl[1].l) <= 10

\* C3 (amended): for every valid colour c, hexToHSL(hslToHex(hexToHSL(c))) is
\* within 1 degree of hexToHSL(c) in h on the colour wheel (359 and 0 are one
\* degree apart), and within 1 unit in s and in l.
C3_RoundTripHSLWithin1OnWheel ==
  (WellFormed(hexIn) /\ backHsl # <<>>) =>
    /\ ~backHsl[1].nan
    /\ HueDistance(backHsl[1].h, hsl[1].h) <= 1
    /\ Abs(backHsl[1].s - hsl[1].s) <= 10
    /\ Abs(backHsl[1].l - hsl[1].l) <= 10

\* C3 witness: a colour of hue 359 that comes back with hue 0.
C3_Witness ==
  /\ WellFormed(hexIn)
  /\ backHsl # <<>>
  /\ hsl[1].h = 359
  /\ backHsl[1].h = 0

\* C4 (as claimed): for every valid colour, hslToHex(hexToHSL(c)) differs from
\* c by at most 1 in each of the red, green and blue channels.
C4_RoundTripRGBWithin1 ==
  (WellFormed(hexIn) /\ back # <<>>) =>
    MaxChannelDiff(RGB(back[1]), RGB(hexIn)) <= 1

\* C4 (amended): for every valid colour, hslToHex(hexToHSL(c)) is a well-formed
\* colour that differs from c by at most 2 in each channel.
C4_RoundTripRGBWithin2 ==
  (WellFormed(hexIn) /\ back # <<>>) =>
    /\ IsRRGGBB(back[1])
    /\ MaxChannelDiff(RGB(back[1]), RGB(hexIn)) <= 2

\* C4 witness: a round trip that moves a channel by 2.
C4_Witness ==
  /\ WellFormed(hexIn)
  /\ back # <<>>
  /\ MaxChannelDiff(RGB(back[1]), RGB(hexIn)) = 2

\* C5 (as claimed): the hue of hexToHSL(calculateComplementaryColor(c)) is
\* the hue of hexToHSL(c) plus exactly 180, modulo 360.
C5_HueExactlyOpposite ==
  (WellFormed(hexIn) /\ compHsl # <<>>) =>
    (compHsl[1].h - hsl[1].h) % 360 = 180

\* C5 (amended): the hue of hexToHSL(calculateComplementaryColor(c)) is within
\* 1 degree of the hue of hexToHSL(c) plus 180, modulo 360.
C5_HueOppositeWithin1 ==
  (WellFormed(hexIn) /\ compHsl # <<>>) =>
    /\ ~compHsl[1].nan
    /\ HueDistance(compHsl[1].h, (hsl[1].h + 180) % 360) <= 1

\* C5 witness: a complementary colour whose hue is one degree off the
\* opposite hue.
C5_Witness ==
  /\ WellFormed(hexIn)
  /\ compHsl # <<>>
  /\ HueDistance(compHsl[1].h, (hsl[1].h + 180) % 360) = 1

\* C6 (as claimed): for every valid colour c, calculateComplementaryColor(c)
\* differs from c and has saturation in [60, 90] and lightness in [30, 80].
C6_ComplementaryInClampRange ==
  /\ (WellFormed(hexIn) /\ comp # <<>>) => RGB(comp[1]) # RGB(hexIn)
  /\ (WellFormed(hexIn) /\ compHsl # <<>>) =>
       /\ 600 <= compHsl[1].s /\ compHsl[1].s <= 900
       /\ 300 <= compHsl[1].l /\ compHsl[1].l <= 800

\* C6 (amended): for every valid colour c, calculateComplementaryColor(c)
\* differs from c and has saturation in [59.2, 90.8] and lightness in
\* [30, 80].
C6_ComplementaryNearClampRange ==
  /\ (WellFormed(hexIn) /\ comp # <<>>) =>
       (IsRRGGBB(comp[1]) /\ RGB(comp[1]) # RGB(hexIn))
  /\ (WellFormed(hexIn) /\ compHsl # <<>>) =>
       /\ ~compHsl[1].nan
       /\ 592 <= compHsl[1].s /\ compHsl[1].s <= 908
       /\ 300 <= compHsl[1].l /\ compHsl[1].l <= 800

\* C6 witness: the complementary colour of #3333cb, decomposed: #eaeaad,
\* saturation 59.2, lightness 79.8.
C6_Witness ==
  /\ hexIn = FormatHex(<<51, 51, 203>>)
  /\ comp = <<FormatHex(<<234, 234, 173>>)>>
  /\ compHsl # <<>>
  /\ compHsl[1].s = 592
  /\ compHsl[1].l = 798

\* C7: for every achromatic input (r = g = b), hexToHSL returns hue 0 and
\* saturation 0 as numbers, and calculateComplementaryColor returns a
\* well-formed #rrggbb colour.
C7_AchromaticHueSaturationZero ==
  Achromatic(hexIn) =>
    /\ hsl # <<>> => (~hsl[1].nan /\ hsl[1].h = 0 /\ hsl[1].s = 0)
    /\ comp # <<>> => IsRRGGBB(comp[1])

\* C7 witness: #808080 decomposed and complemented.
C7_Witness ==
  /\ hexIn = FormatHex(<<128, 128, 128>>)
  /\ hsl # <<>>
  /\ hsl[1].s = 0
  /\ comp # <<>>

\* C8: hexToHSL and calculateComplementaryColor give the same result for
\* every spelling of a colour, with or without the leading # and in upper or
\* lower case.
C8_SpellingsAgree ==
  WellFormed(hexIn) =>
    \A spelling \in Spellings(hexIn) : \A fp \in Fp :
      /\ (hsl # <<>> /\ hexToHSL(hexIn, fp) = hsl[1])
           => hexToHSL(spelling, fp) = hsl[1]
      /\ (comp # <<>> /\ calculateComplementaryColor(hexIn, fp) = comp[1])
           => calculateComplementaryColor(spelling, fp) = comp[1]

\* C8 witness: '#FF8000' decomposed and complemented, as 'ff8000' is.
C8_Witness ==
  /\ hexIn = ToUpperCase(FormatHex(<<255, 128, 0>>))
  /\ hsl = <<[nan |-> FALSE, h |-> 30, s |-> 1000, l |-> 500]>>
  /\ comp = <<FormatHex(<<8, 77, 145>>)>>

(***************************************************************************)
(* LogoProvider's theme before any response                                *)
(***************************************************************************)
\* C2: while LogoProvider has set the data of no header-style response, the
\* theme it exposes once its effects have run is dominantColor '#282c34' and
\* complementaryColor '#6495ED'.
C2_DefaultTheme ==
  (mounted /\ ~EffectDue /\ applied = <<>>) =>
    /\ dominantColor = <<"#", "2", "8", "2", "c", "3", "4">>
    /\ complementaryColor = <<"#", "6", "4", "9", "5", "E", "D">>

C11_HexToHSLRanges ==
  WellFormed(hexIn) =>
    \A res \in {hsl, backHsl, compHsl} :
      res # <<>> =>
        /\ ~res[1].nan
        /\ res[1].h \in 0..359
        /\ res[1].s \in 0..1000
        /\ res[1].l \in 0..1000

\* C11 witness: #ff0001, whose hue of -0.24 degrees rounds to 0 and whose
\* saturation is 100, and its round trip decomposed.
C11_Witness ==
  /\ hexIn = FormatHex(<<255, 0, 1>>)
  /\ hsl = <<[nan |-> FALSE, h |-> 0, s |-> 1000, l |-> 500]>>
  /\ backHsl # <<>>

\* C12: for every h in [0, 360) and s, l in [0, 100], hslToHex returns '#'
\* and exactly six lower-case hex digits, two for each channel, and each
\* channel is the integer nearest to (channel + m) * 255, within 0..255.
C12_HslToHexFormat ==
  hexOut # <<>> =>
    /\ IsRRGGBB(hexOut[1])
    /\ \A k \in 1..3 :
         LET v == HexValue(SubSeq(hexOut[1], 2 * k, 2 * k + 1))
             u == ChannelUnits(hslIn[1], hslIn[2], hslIn[3])[k]
         IN  /\ v \in 0..255
             /\ 0 <= u /\ u <= 60000000
             /\ Abs(4000000 * v - 17 * u) <= 2000000

\* C12 witness: hslToHex(0, 100, 50) = '#ff0000', two channels of which are
\* padded to two digits.
C12_Witness ==
  /\ hslIn = <<0, 1000, 500>>
  /\ hexOut = <<FormatHex(<<255, 0, 0>>)>>

(***************************************************************************)
(* The temporary files of upload_logo                                      *)
(***************************************************************************)
\* C13: once an upload_logo request has returned, with 200 or with an error
\* response, neither temporary file it created remains: a container none of
\* whose requests is still running holds no /tmp/temp_logo.png and no
\* /tmp/header_style.json.
C13_TempFilesCleanedUp ==
  \A k \in Containers :
    (\A i \in Uploads : InFlight(i) => upload[i].on # k) =>
      (tmpLogo[k] = <<>> /\ tmpStyle[k] = <<>>)

(***************************************************************************)
(* LogoProvider's theme after fetches                                      *)
(***************************************************************************)
\* C14: after any sequence of header-style fetches, successful or failed,
\* once the pending effects have run, complementaryColor is
\* calculateComplementaryColor(dominantColor), and dominantColor is the
\* dominantColor of the last response whose data was set, unchanged (the
\* initial '#282c34' while none was).
C14_ThemeDerivedFromDominant ==
  (mounted /\ ~EffectDue) =>
    /\ \E fp \in Fp :
         complementaryColor = calculateComplementaryColor(dominantColor, fp)
    /\ dominantColor =
         IF applied = <<>>
         THEN <<"#", "2", "8", "2", "c", "3", "4">>
         ELSE applied[Len(applied)].dominantColor

\* C14 witness: the first fetch set one colour, the second threw, the third
\* set another colour, and the effect has run since.
C14_Witness ==
  /\ mounted
  /\ ~EffectDue
  /\ fetch = <<"applied", "threw", "applied">>
  /\ Len(applied) = 2
  /\ applied[1].dominantColor = FormatHex(<<255, 128, 0>>)
  /\ applied[2].dominantColor = FormatHex(<<0, 51, 204>>)
  /\ dominantColor = FormatHex(<<0, 51, 204>>)
  /\ complementaryColor \notin {InitialComplementary, DefaultBlue}

(***************************************************************************)
(* Overlapping header-style fetches                                        *)
(***************************************************************************)
\* C15: if a call of fetchHeaderStyle began while an earlier one was still
\* pending, then once both have set their responses (and no later call has
\* been made), dominantColor and logoUrl hold the values of the response to
\* the later call: an older response never overwrites a newer one.
C15_LaterFetchWins ==
  \A p \in overlaps :
    ( /\ fetch[p[1]] = "applied"
      /\ fetch[p[2]] = "applied"
      /\ \A k \in Fetches : k > p[2] => fetch[k] = "idle" ) =>
        /\ dominantColor = response[p[2]][1].dominantColor
        /\ logoUrl = FullLogoUrl(response[p[2]][1].logoUrl)

(***************************************************************************)
(* The exits of handleUpload                                               *)
(***************************************************************************)
\* C16: every started handleUpload, on each of its exit paths, leaves
\* uploading = false and the simulated-progress timer stopped: when no
\* handleUpload is running, uploading is false and no progressInterval
\* runs; and while the request is pending the progress is at most 90.
C16_ExitStopsTimer ==
  /\ request = 0 => (~uploading /\ intervals = {})
  /\ request # 0 => uploadProgress <= 90

====
